---- MODULE Spec2Model ----
(***************************************************************************)
(* deepof/utils.py: the trajectory repair pipeline.                        *)
(*                                                                         *)
(*   MouseTrackingImputer.fit_transform  (utils.py 290-349)                *)
(*   MouseTrackingImputer._initialize_constraints (utils.py 223-285)       *)
(*   enforce_skeleton_constraints_numba  (utils.py 149-194)                *)
(*   rts_smoother_numba                  (utils.py 69-145)                 *)
(*   iterative_imputation                (utils.py 601-668)                *)
(*                                                                         *)
(* A table (pandas DataFrame) is a pair of a column list, `columns`, and a *)
(* function frame -> column -> value.  A value is an integer in fixed      *)
(* point (the floats of the code), or NaN.  The 3D buffer                  *)
(* data.values.reshape(len(data), -1, 2) is the same table read through    *)
(* Col(k, a): entry [frame, k, a] is column 2k + a + 1 of the table.       *)
(***************************************************************************)
EXTENDS Integers, Sequences, FiniteSets, TLC

VARIABLES
    pc,                   \* position of the current fit_transform call
    calls,                \* number of fit_transform calls started on this imputer
    full_imputation,      \* self.full_imputation
    connectivity,         \* self.connectivity: adjacency <<part, <<neighbours>>>>
    body_part_indices,    \* self.body_part_indices: None or <<name, index>> pairs
    skeleton_constraints, \* self.skeleton_constraints: None or <<idx1, idx2, dist>>*
    sampled_frames,       \* sampled_frames of _initialize_constraints, as frame numbers
    columns,              \* data.columns of the table of the current call
    data,                 \* the caller's table (fit_transform works on it in place)
    raw,                  \* the table as it was when the call started
    prev,                 \* the table before the previous call on the same table
    original_pos,         \* original_pos of fit_transform, as a table of booleans
    nan_frames,           \* nan_frames of fit_transform (the dilated selection)
    completed_data,       \* completed_data of fit_transform
    smoothed_data,        \* smoothed_data of fit_transform (enforced in place)
    cursor,               \* <<frame, constraint>> reached by the enforcer's loops
    last,                 \* what the enforcer's last constraint step did
    result,               \* the value fit_transform returned
    error,                \* the exception fit_transform raised, or "none"
    tab_dict,             \* iterative_imputation: the tables of the animal
    presence_masks,       \* iterative_imputation: per table, the frames the animal is in
    imputed_tabs,         \* iterative_imputation: the deep copy it updates and returns
    key,                  \* iterative_imputation: the table the loop is at (0: no loop)
    warnings              \* the warnings iterative_imputation has issued

vars == <<pc, calls, full_imputation, connectivity, body_part_indices,
          skeleton_constraints, sampled_frames, columns, data, raw, prev,
          original_pos, nan_frames, completed_data, smoothed_data, cursor, last,
          result, error, tab_dict, presence_masks, imputed_tabs, key, warnings>>

\* the variables of iterative_imputation, which no step of fit_transform writes
driver == <<tab_dict, presence_masks, imputed_tabs, key, warnings>>

(***************************************************************************)
(* Values                                                                  *)
(***************************************************************************)
\* np.nan: a value outside every coordinate the model produces
NaN == 0 - 1048576

\* Python's None
None == <<"None">>

IsNaN(v) == v = NaN

Max(a, b) == IF a >= b THEN a ELSE b

Min(a, b) == IF a <= b THEN a ELSE b

Abs(a) == IF a >= 0 THEN a ELSE 0 - a

\* quotient rounded toward zero, as Python's int(a / b) for b > 0
TruncDiv(a, b) == IF a >= 0 THEN a \div b ELSE 0 - ((0 - a) \div b)

NFramesOf(t) == Len(t)

NColsOf(t) == IF Len(t) = 0 THEN 0 ELSE Len(t[1])

\* column c of table t as a sequence over the frames
Column(t, c) == [f \in 1..Len(t) |-> t[f][c]]

\* the table whose columns are the sequences cols[1], cols[2], ...
FromColumns(cols, n) == [f \in 1..n |-> [c \in 1..Len(cols) |-> cols[c][f]]]

\* np.isnan(table).any()
AnyNaN(t) == ~(\A f \in 1..Len(t) : \A c \in 1..NColsOf(t) : ~IsNaN(t[f][c]))

(***************************************************************************)
(* data.interpolate(method="linear", limit=lin_interp_limit,               *)
(*                  limit_direction="both", inplace=True)                  *)
(***************************************************************************)
\* self.lin_interp_limit
lin_interp_limit == 3

\* index of the nearest valid entry of s before i, 0 when there is none
PrevValid(s, i) ==
    LET js == {j \in 1..(i - 1) : ~IsNaN(s[j])}
    IN  IF js = {} THEN 0 ELSE CHOOSE j \in js : \A k \in js : k <= j

\* index of the nearest valid entry of s after i, 0 when there is none
NextValid(s, i) ==
    LET js == {j \in (i + 1)..Len(s) : ~IsNaN(s[j])}
    IN  IF js = {} THEN 0 ELSE CHOOSE j \in js : \A k \in js : k >= j

\* mutant of NpInterp: the missing entry takes the value before it (a pad)
NpInterpPad(s, i) ==
    LET l == PrevValid(s, i)
        r == NextValid(s, i)
    IN  IF l = 0 THEN s[r] ELSE s[l]

\* np.interp at position i of s: the line through the two nearest valid
\* entries, and the nearest valid entry's value outside the valid range
NpInterp(s, i) ==
    LET l == PrevValid(s, i)
        r == NextValid(s, i)
    IN  IF l = 0 THEN s[r]
        ELSE IF r = 0 THEN s[l]
        ELSE s[l] + ((s[r] - s[l]) * (i - l)) \div (r - l)

\* pandas _interp_limit: position i is not reached by a forward fill of at
\* most `limit` entries (no valid entry among the `limit` entries before it)
FwdBlocked(s, i, limit) == \A j \in Max(1, i - limit)..(i - 1) : IsNaN(s[j])

\* position i is not reached by a backward fill of at most `limit` entries
BwdBlocked(s, i, limit) == \A j \in (i + 1)..Min(Len(s), i + limit) : IsNaN(s[j])

\* limit_direction="both": a missing entry stays missing only when neither
\* the forward nor the backward fill reaches it
PreserveNaN(s, i, limit) == FwdBlocked(s, i, limit) /\ BwdBlocked(s, i, limit)

\* pandas _interpolate_1d on one column
InterpolateColumn(s, limit) ==
    IF (\A i \in 1..Len(s) : IsNaN(s[i])) \/ (\A i \in 1..Len(s) : ~IsNaN(s[i]))
    THEN s
    ELSE [i \in 1..Len(s) |->
            IF ~IsNaN(s[i]) THEN s[i]
            ELSE IF PreserveNaN(s, i, limit) THEN NaN
            ELSE NpInterp(s, i)]

\* DataFrame.interpolate: every column on its own
Interpolate(t, limit) ==
    FromColumns([c \in 1..NColsOf(t) |-> InterpolateColumn(Column(t, c), limit)],
                Len(t))

(***************************************************************************)
(* The 3D buffer and distances                                             *)
(***************************************************************************)
\* column of entry [k, a] of data.values.reshape(len(data), -1, 2)
Col(k, a) == 2 * k + a + 1

\* n_body_parts of the reshaped buffer
NPairs(t) == NColsOf(t) \div 2

\* floor of the square root of n, by bisection of lo..hi
RECURSIVE SqrtBetween(_, _, _)
SqrtBetween(n, lo, hi) ==
    IF lo >= hi THEN lo
    ELSE LET mid == (lo + hi + 1) \div 2
         IN  IF mid * mid <= n THEN SqrtBetween(n, mid, hi)
             ELSE SqrtBetween(n, lo, mid - 1)

\* np.sqrt in fixed point
Sqrt(n) == SqrtBetween(n, 0, Min(n, 46340))

\* np.sqrt(np.sum((p - q) ** 2)) for p = (px, py), q = (qx, qy)
\* (NaN where a coordinate is NaN)
Distance(px, py, qx, qy) ==
    IF IsNaN(px) \/ IsNaN(py) \/ IsNaN(qx) \/ IsNaN(qy) THEN NaN
    ELSE Sqrt((px - qx) * (px - qx) + (py - qy) * (py - qy))

\* the sum of s[lo..hi], by halves
RECURSIVE SumRange(_, _, _)
SumRange(s, lo, hi) ==
    IF lo > hi THEN 0
    ELSE IF lo = hi THEN s[lo]
    ELSE LET mid == (lo + hi) \div 2
         IN  SumRange(s, lo, mid) + SumRange(s, mid + 1, hi)

SumSeq(s) == SumRange(s, 1, Len(s))

\* np.mean of a non-empty list (NaN where an element is NaN)
Mean(s) ==
    IF \A n \in 1..Len(s) : ~IsNaN(s[n]) THEN SumSeq(s) \div Len(s) ELSE NaN

(***************************************************************************)
(* MouseTrackingImputer._initialize_constraints                            *)
(***************************************************************************)
\* self.mouse_body_estimation_samples
mouse_body_estimation_samples == 100

\* names of the columns in order of first appearance, "Row" left out
RECURSIVE PartNames(_, _)
PartNames(cols, seen) ==
    IF cols = <<>> THEN <<>>
    ELSE LET name == cols[1][1]
         IN  IF name = "Row" \/ name \in seen THEN PartNames(Tail(cols), seen)
             ELSE <<name>> \o PartNames(Tail(cols), seen \cup {name})

\* mutant of IndexOfName: the parts are numbered in their order of first
\* appearance, whatever columns come before them
IndexOfNameByOrder(cols, name) ==
    LET names == PartNames(cols, {})
    IN  (CHOOSE n \in 1..Len(names) : names[n] = name) - 1

\* the value the loop leaves for `name`: int((i - 1) / 2) of the last column
\* i (counted from 0) that carries the name
IndexOfName(cols, name) ==
    LET is == {i \in 1..Len(cols) : cols[i][1] = name}
        i  == CHOOSE j \in is : \A k \in is : k <= j
    IN  TruncDiv((i - 1) - 1, 2)

\* self.body_part_indices after lines 234-240
BodyPartIndices(cols) ==
    LET names == PartNames(cols, {})
    IN  [n \in 1..Len(names) |-> <<names[n], IndexOfName(cols, names[n])>>]

HasPart(bpi, name) == \E n \in 1..Len(bpi) : bpi[n][1] = name

PartIndex(bpi, name) == bpi[CHOOSE n \in 1..Len(bpi) : bpi[n][1] = name][2]

\* mutant of CompleteFrames: a frame counts when any of its entries is present
RECURSIVE FramesWithAnyValueIn(_, _, _)
FramesWithAnyValueIn(t, lo, hi) ==
    IF lo > hi THEN <<>>
    ELSE IF lo = hi
    THEN IF \A c \in 1..NColsOf(t) : IsNaN(t[lo][c]) THEN <<>> ELSE <<lo>>
    ELSE FramesWithAnyValueIn(t, lo, (lo + hi) \div 2)
         \o FramesWithAnyValueIn(t, (lo + hi) \div 2 + 1, hi)

FramesWithAnyValue(t, f) == FramesWithAnyValueIn(t, f, Len(t))

\* frames lo..hi of t without any NaN, in order, by halves
RECURSIVE CompleteFramesIn(_, _, _)
CompleteFramesIn(t, lo, hi) ==
    IF lo > hi THEN <<>>
    ELSE IF lo = hi
    THEN IF \A c \in 1..NColsOf(t) : ~IsNaN(t[lo][c]) THEN <<lo>> ELSE <<>>
    ELSE CompleteFramesIn(t, lo, (lo + hi) \div 2)
         \o CompleteFramesIn(t, (lo + hi) \div 2 + 1, hi)

\* frames of t from frame f on without any NaN, in order (complete_frames)
CompleteFrames(t, f) == CompleteFramesIn(t, f, Len(t))

\* [complete_frames[i] for i in range(0, total_frames, step)]
SampledFrames(complete) ==
    LET total == Len(complete)
        step  == Max(1, total \div mouse_body_estimation_samples)
        count == (total + step - 1) \div step
    IN  [n \in 1..count |-> complete[(n - 1) * step + 1]]

\* the column labelled (name, axis)
LabelCol(cols, name, axis) ==
    CHOOSE c \in 1..Len(cols) : cols[c] = <<name, axis>>

\* row[part]["x"], row[part]["y"] distance of two parts in frame f
PartDistance(t, cols, f, part1, part2) ==
    Distance(t[f][LabelCol(cols, part1, "x")], t[f][LabelCol(cols, part1, "y")],
             t[f][LabelCol(cols, part2, "x")], t[f][LabelCol(cols, part2, "y")])

\* the constraints of one adjacency entry <<part1, connected_parts>>
RECURSIVE ConstraintsOfPart(_, _, _, _, _, _)
ConstraintsOfPart(t, cols, bpi, sampled, part1, connected) ==
    IF connected = <<>> THEN <<>>
    ELSE LET part2 == connected[1]
             rest  == ConstraintsOfPart(t, cols, bpi, sampled, part1, Tail(connected))
         IN  IF HasPart(bpi, part1) /\ HasPart(bpi, part2)
             THEN <<<<PartIndex(bpi, part1), PartIndex(bpi, part2),
                      Mean([n \in 1..Len(sampled) |->
                              PartDistance(t, cols, sampled[n], part1, part2)])>>>>
                  \o rest
             ELSE rest

\* self.skeleton_constraints after lines 259-279
RECURSIVE BuildConstraints(_, _, _, _, _)
BuildConstraints(t, cols, bpi, sampled, adj) ==
    IF adj = <<>> THEN <<>>
    ELSE ConstraintsOfPart(t, cols, bpi, sampled, adj[1][1], adj[1][2])
         \o BuildConstraints(t, cols, bpi, sampled, Tail(adj))

(***************************************************************************)
(* enforce_skeleton_constraints_numba                                      *)
(***************************************************************************)
\* tolerance=0.1, in percent
tolerance == 10

\* correction_factor=0.5, in percent
correction_factor == 50

\* mutant of OutOfTolerance: any deviation from the expected distance counts
OutOfToleranceAny(current_dist, dist) ==
    /\ ~IsNaN(current_dist)
    /\ ~IsNaN(dist)
    /\ current_dist # dist

\* current_dist > dist * (1 + tolerance) or current_dist < dist * (1 - tolerance)
\* (both comparisons are False where a side is NaN)
OutOfTolerance(current_dist, dist) ==
    /\ ~IsNaN(current_dist)
    /\ ~IsNaN(dist)
    /\ \/ 100 * current_dist > dist * (100 + tolerance)
       \/ 100 * current_dist < dist * (100 - tolerance)

\* 2 * correction * (pm - p) along one axis, for the point at p and the other
\* endpoint at q: correction = (current_dist - dist) / (2 * current_dist + 0.00001)
\* * correction_factor and pm - p = (q - p) / 2.  At current_dist = 0 both
\* endpoints coincide and the product is 0.
FullShift(current_dist, dist, p, q) ==
    IF current_dist = 0 THEN 0
    ELSE TruncDiv((current_dist - dist) * correction_factor * (q - p),
                  200 * current_dist)

\* correction * (pm - p) along one axis
HalfShift(current_dist, dist, p, q) ==
    IF current_dist = 0 THEN 0
    ELSE TruncDiv((current_dist - dist) * correction_factor * (q - p),
                  400 * current_dist)

\* which endpoints lines 187-193 move: the test reads the x flag of part1,
\* then the x flag of part2
MovesPart1(orig, part1, part2) == ~orig[Col(part1, 0)]

MovesPart2(orig, part1, part2) ==
    orig[Col(part1, 0)] \/ ~orig[Col(part2, 0)]

\* one constraint (part1, part2, dist) applied to one frame `row` of the
\* buffer, `orig` being original_pos[frame]
EnforceOne(row, orig, con) ==
    LET part1 == con[1]
        part2 == con[2]
        dist  == con[3]
        x1 == row[Col(part1, 0)]
        y1 == row[Col(part1, 1)]
        x2 == row[Col(part2, 0)]
        y2 == row[Col(part2, 1)]
        current_dist == Distance(x1, y1, x2, y2)
        both == MovesPart1(orig, part1, part2) /\ MovesPart2(orig, part1, part2)
        sx1 == IF both THEN HalfShift(current_dist, dist, x1, x2)
               ELSE FullShift(current_dist, dist, x1, x2)
        sy1 == IF both THEN HalfShift(current_dist, dist, y1, y2)
               ELSE FullShift(current_dist, dist, y1, y2)
        sx2 == IF both THEN HalfShift(current_dist, dist, x2, x1)
               ELSE FullShift(current_dist, dist, x2, x1)
        sy2 == IF both THEN HalfShift(current_dist, dist, y2, y1)
               ELSE FullShift(current_dist, dist, y2, y1)
    IN  IF ~OutOfTolerance(current_dist, dist) THEN row
        ELSE [c \in DOMAIN row |->
                IF c = Col(part1, 0) /\ MovesPart1(orig, part1, part2) THEN x1 + sx1
                ELSE IF c = Col(part1, 1) /\ MovesPart1(orig, part1, part2) THEN y1 + sy1
                ELSE IF c = Col(part2, 0) /\ MovesPart2(orig, part1, part2) THEN x2 + sx2
                ELSE IF c = Col(part2, 1) /\ MovesPart2(orig, part1, part2) THEN y2 + sy2
                ELSE row[c]]

\* np.all(original_pos[frame, :, 0]): the frame is skipped
SkipFrame(orig) == \A k \in 0..((Len(orig) \div 2) - 1) : orig[Col(k, 0)]

\* the constraints from the k-th on, applied in order to one frame
RECURSIVE EnforceFrame(_, _, _, _)
EnforceFrame(row, orig, cons, k) ==
    IF k > Len(cons) THEN row
    ELSE EnforceFrame(EnforceOne(row, orig, cons[k]), orig, cons, k + 1)

\* enforce_skeleton_constraints_numba(data, skeleton_constraints, original_pos)
EnforceAll(t, cons, orig) ==
    [f \in 1..Len(t) |->
        IF SkipFrame(orig[f]) THEN t[f] ELSE EnforceFrame(t[f], orig[f], cons, 1)]

(***************************************************************************)
(* rts_smoother_numba and MouseTrackingImputer._kalman_smoothing           *)
(*                                                                         *)
(* The state is <<position, velocity>>, F = [[1, 1], [0, 1]], H = [1, 0].  *)
(* The gains K and C come from the covariance recursions, which do not     *)
(* read the measurements; the model keeps the two passes and draws the     *)
(* gains, in percent, from KalmanGains: <<K position, K velocity, C>>.     *)
(***************************************************************************)
KalmanGains == {<<100, 50, 50>>, <<60, 20, 80>>}

\* predicted_states[t] = F @ filtered_states[t - 1]
Predict(state) == <<state[1] + state[2], state[2]>>

\* filtered_states[t] = predicted_states[t] + K @ innovation
Update(predicted, measurement, g) ==
    LET innovation == measurement - predicted[1]
    IN  <<predicted[1] + TruncDiv(g[1] * innovation, 100),
          predicted[2] + TruncDiv(g[2] * innovation, 100)>>

\* lines 113-127: filtered_states[lo..hi] from filtered_states[lo - 1] = before,
\* by halves
RECURSIVE FilterRange(_, _, _, _, _)
FilterRange(m, g, before, lo, hi) ==
    IF lo > hi THEN <<>>
    ELSE IF lo = hi THEN <<Update(Predict(before), m[lo], g)>>
    ELSE LET mid == (lo + hi) \div 2
             left == FilterRange(m, g, before, lo, mid)
         IN  left \o FilterRange(m, g, left[Len(left)], mid + 1, hi)

\* mutant of FilteredStates: line 110 is missing, filtered_states[0] stays
\* the zeros of np.zeros
FilteredStatesFromZero(m, g, t) ==
    << <<0, 0>> >> \o FilterRange(m, g, <<0, 0>>, 2, t)

\* the forward pass: filtered_states[1..t], filtered_states[0] = measurements[0]
\* written to both components of the state
FilteredStates(m, g, t) ==
    << <<m[1], m[1]>> >> \o FilterRange(m, g, <<m[1], m[1]>>, 2, t)

\* lines 130-143: smoothed_states[lo..hi] from smoothed_states[hi + 1] = next,
\* by halves; the later half is computed first, as the loop runs backwards
RECURSIVE SmoothRange(_, _, _, _, _)
SmoothRange(filtered, g, next, lo, hi) ==
    IF lo > hi THEN <<>>
    ELSE IF lo = hi
    THEN LET predicted == Predict(filtered[lo])
         IN  << <<filtered[lo][1] + TruncDiv(g[3] * (next[1] - predicted[1]), 100),
                  filtered[lo][2] + TruncDiv(g[3] * (next[2] - predicted[2]), 100)>> >>
    ELSE LET mid == (lo + hi) \div 2
             right == SmoothRange(filtered, g, next, mid + 1, hi)
         IN  IF right = <<>> THEN <<>>
             ELSE SmoothRange(filtered, g, right[1], lo, mid) \o right

\* the backward pass: smoothed_states[1..n] given smoothed_states[t+1..n]
SmoothedStates(filtered, g, t, after) ==
    SmoothRange(filtered, g, after[1], 1, t) \o after

\* rts_smoother_numba(measurements, F, H, Q, R)[:, 0]
RtsSmoother(m, g) ==
    LET n == Len(m)
        filtered == FilteredStates(m, g, n)
        smoothed == SmoothedStates(filtered, g, n - 1, <<filtered[n]>>)
    IN  [t \in 1..n |-> smoothed[t][1]]

\* _kalman_smoothing: every channel of the buffer on its own
KalmanSmoothing(t, g) ==
    FromColumns([c \in 1..NColsOf(t) |-> RtsSmoother(Column(t, c), g)], Len(t))

(***************************************************************************)
(* MouseTrackingImputer._iterative_imputation                              *)
(*                                                                         *)
(* StandardScaler and IterativeImputer are library code.  What the model   *)
(* keeps: an entry that is present comes back as it was, a missing entry   *)
(* gets an estimate (the mean of its column over the rows handed in, plus  *)
(* an offset drawn from ImputeOffsets), and a column without any present   *)
(* entry is dropped, so that the reshape to the original shape fails.      *)
(***************************************************************************)
ImputeOffsets == {0, 6}

\* rows: the frames of t handed to the imputer
ColumnEmpty(t, rows, c) == \A f \in rows : IsNaN(t[f][c])

\* imputed.reshape(original_shape) raises ValueError
ImputationFails(t, rows) == \E c \in 1..NColsOf(t) : ColumnEmpty(t, rows, c)

\* the sum of column c of t over the frames fs
SumOver(t, fs, c) ==
    SumSeq([f \in 1..Len(t) |-> IF f \in fs THEN t[f][c] ELSE 0])

ColumnEstimate(t, rows, c, offset) ==
    LET present == {f \in rows : ~IsNaN(t[f][c])}
    IN  SumOver(t, present, c) \div Cardinality(present) + offset

\* the rows `rows` of t imputed, the other rows as they are
IterativeImputation(t, rows, offset) ==
    [f \in 1..Len(t) |-> [c \in 1..NColsOf(t) |->
        IF f \in rows /\ IsNaN(t[f][c]) THEN ColumnEstimate(t, rows, c, offset)
        ELSE t[f][c]]]

(***************************************************************************)
(* The frame selection of fit_transform (lines 319-334)                    *)
(***************************************************************************)
\* the length of np.ones(15)
DilationWindow == 15

\* data_snippets.shape[0] > 50
MinSnippetFrames == 50

\* original_pos = ~np.isnan(reshaped_data)
OriginalPos(t) == [f \in 1..Len(t) |-> [c \in 1..NColsOf(t) |-> ~IsNaN(t[f][c])]]

\* (~original_pos[k, :]).any()
FrameHasNaN(orig, f) == \E c \in 1..Len(orig[f]) : ~orig[f][c]

\* np.convolve(nan_frames, np.ones(15), mode="same") > 0: max(n, 15) booleans;
\* entry i sums the frames i + shift - 14 .. i + shift that exist, where shift
\* is half the shorter operand's length less one
NanFrames(orig) ==
    LET n == Len(orig)
        shift == (Min(n, DilationWindow) - 1) \div 2
    IN  [i \in 1..Max(n, DilationWindow) |->
            \E f \in 1..n :
                /\ i + shift - (DilationWindow - 1) <= f
                /\ f <= i + shift
                /\ FrameHasNaN(orig, f)]

\* reshaped_data[nan_frames] raises IndexError: the boolean index has another
\* length than the buffer has frames
SelectionFails(orig, sel) == Len(sel) # Len(orig)

SelectedFrames(sel) == {f \in 1..Len(sel) : sel[f]}

\* mutant of FillBack: the copy-back is not masked by original_pos and writes
\* every entry of the gap-filled table, the missing ones too
FillBackAll(t, orig, source) == source

\* completed_data[original_pos] = reshaped_data[original_pos]
FillBack(t, orig, source) ==
    [f \in 1..Len(t) |-> [c \in 1..NColsOf(t) |->
        IF orig[f][c] THEN source[f][c] ELSE t[f][c]]]

(***************************************************************************)
(* The tables and imputers the model calls fit_transform with              *)
(***************************************************************************)
\* fit_transform calls made on one imputer
MaxCalls == 2

\* frames of a track too short for the dilation window, and of one it fits
ShortLen == 5

LongLen == 15

TrackLens == {1, ShortLen, LongLen}

Parts == <<"A", "B", "C">>

\* the columns of a coordinate table: (part, "x"), (part, "y") per part
PartColumns == [c \in 1..(2 * Len(Parts)) |->
                  <<Parts[(c + 1) \div 2], IF c % 2 = 1 THEN "x" ELSE "y">>]

\* nx.Graph adjacency of the chain A - B - C, and of the same chain under
\* names the tables do not have (another animal id)
Connectivities ==
    { << <<"A", <<"B">>>>, <<"B", <<"A", "C">>>>, <<"C", <<"B">>>> >>,
      << <<"m_A", <<"m_B">>>>, <<"m_B", <<"m_A", "m_C">>>>, <<"m_C", <<"m_B">>>> >> }

\* where a part is in a frame: A at (100, 100), B 50 away and C 60 beyond B;
\* in the first frame of a "stretch" track B and C are twice as far from A
Position(traj, f, part, axis) ==
    LET stretched == traj = "stretch" /\ f = 1
        x == CASE part = "A" -> 100
               [] part = "B" -> IF stretched THEN 180 ELSE 140
               [] OTHER      -> IF stretched THEN 180 ELSE 140
        y == CASE part = "A" -> 100
               [] part = "B" -> IF stretched THEN 160 ELSE 130
               [] OTHER      -> IF stretched THEN 220 ELSE 190
    IN  IF axis = "x" THEN x ELSE y

Trajectories == {"rigid", "stretch"}

\* a part's run of missing frames: none, or first..last: every frame, all
\* but the last or all but the first, or a run of RunLens frames from a frame
\* of RunStarts
RunStarts == {1, 2}

RunLens == {1, 4}

Runs(n) == {<<>>} \cup {<<1, n>>}
           \cup {<<1, n - 1>> : x \in {n} \ {1}}
           \cup {<<2, n>> : x \in {n} \ {1}}
           \cup {<<a, a + l - 1>> : a \in {x \in RunStarts : x <= n},
                                    l \in {x \in RunLens : x < n}}

\* the axes a run of missing frames hits
AxisModes == {<<"x", "y">>, <<"x">>}

InRun(run, f) == run # <<>> /\ run[1] <= f /\ f <= run[2]

\* the track of n frames with part p missing on the axes `axes` in runs[p]
Track(n, traj, runs, axes) ==
    [f \in 1..n |-> [c \in 1..Len(PartColumns) |->
        LET part == PartColumns[c][1]
            axis == PartColumns[c][2]
            p == (c + 1) \div 2
        IN  IF InRun(runs[p], f) /\ (\E i \in 1..Len(axes) : axes[i] = axis)
            THEN NaN ELSE Position(traj, f, part, axis)]]

\* the track of n frames in which every frame misses one part, the parts
\* taking turns: no frame is complete and every gap is one frame long
Staggered(n, traj) ==
    [f \in 1..n |-> [c \in 1..Len(PartColumns) |->
        IF (c + 1) \div 2 = ((f - 1) % Len(Parts)) + 1
        THEN NaN ELSE Position(traj, f, PartColumns[c][1], PartColumns[c][2])]]

\* the tables of the first call on an imputer
Tracks ==
    UNION {{Track(n, traj, runs, axes) :
                traj \in Trajectories,
                runs \in [1..Len(Parts) -> Runs(n)],
                axes \in AxisModes}
           \cup {Staggered(n, traj) : traj \in Trajectories} : n \in TrackLens}

\* the tables of the later calls: LongLen frames, one part with a run on both
\* axes
LaterTracks ==
    {Track(LongLen, traj, [q \in 1..Len(Parts) |-> IF q = p THEN run ELSE <<>>],
           <<"x", "y">>) :
        traj \in Trajectories, p \in 1..Len(Parts), run \in Runs(LongLen)}

\* the columns of a table of another body-part set, in another order
OtherParts == <<"B", "A", "D">>

OtherColumns == [c \in 1..(2 * Len(OtherParts)) |->
                   <<OtherParts[(c + 1) \div 2], IF c % 2 = 1 THEN "x" ELSE "y">>]

\* the tables of that layout: LongLen frames, the first part of the layout
\* observed in the last frame only
OtherTracks ==
    {[f \in 1..LongLen |-> [c \in 1..Len(OtherColumns) |->
         IF c <= 2 /\ f < LongLen THEN NaN
         ELSE Position(traj, f, OtherColumns[c][1], OtherColumns[c][2])]] :
       traj \in Trajectories}

(***************************************************************************)
(* MouseTrackingImputer.__init__ and fit_transform, step by step           *)
(***************************************************************************)
NoTable == <<>>

NoStep == <<>>

\* MouseTrackingImputer(connectivity=..., full_imputation=...)
Init ==
    /\ pc = "idle"
    /\ calls = 0
    /\ full_imputation \in BOOLEAN
    /\ connectivity \in Connectivities
    /\ body_part_indices = None
    /\ skeleton_constraints = None
    /\ sampled_frames = <<>>
    /\ columns = <<>>
    /\ data = NoTable
    /\ raw = NoTable
    /\ prev = NoTable
    /\ original_pos = NoTable
    /\ nan_frames = <<>>
    /\ completed_data = NoTable
    /\ smoothed_data = NoTable
    /\ cursor = <<0, 0>>
    /\ last = NoStep
    /\ result = None
    /\ error = "none"
    /\ tab_dict = <<>>
    /\ presence_masks = <<>>
    /\ imputed_tabs = <<>>
    /\ key = 0
    /\ warnings = <<>>

\* the locals of the previous call are gone when a call starts
Enter(t, cols, before) ==
    /\ pc' = "called"
    /\ calls' = calls + 1
    /\ columns' = cols
    /\ data' = t
    /\ raw' = t
    /\ prev' = before
    /\ original_pos' = NoTable
    /\ nan_frames' = <<>>
    /\ completed_data' = NoTable
    /\ smoothed_data' = NoTable
    /\ cursor' = <<0, 0>>
    /\ last' = NoStep
    /\ result' = None
    /\ error' = "none"
    /\ sampled_frames' = <<>>
    /\ UNCHANGED <<full_imputation, connectivity, body_part_indices,
                   skeleton_constraints>>
    /\ UNCHANGED driver

\* imputer.fit_transform(data, key), the first call on the imputer
Call ==
    /\ pc = "idle"
    /\ calls = 0
    /\ \E t \in Tracks : Enter(t, PartColumns, NoTable)

\* imputer.fit_transform(data, key), a later call on the same imputer
CallNext ==
    /\ pc \in {"returned", "raised"}
    /\ 0 < calls /\ calls < MaxCalls
    /\ \E t \in LaterTracks : Enter(t, PartColumns, NoTable)

\* imputer.fit_transform(data, key), a later call on the same imputer with a
\* table of another body-part set
CallOther ==
    /\ pc \in {"returned", "raised"}
    /\ 0 < calls /\ calls < MaxCalls
    /\ \E t \in OtherTracks : Enter(t, OtherColumns, NoTable)

\* lines 303-308: data.interpolate(..., inplace=True)
InterpolateStep ==
    /\ pc = "called"
    /\ pc' = "interpolated"
    /\ data' = Interpolate(data, lin_interp_limit)
    /\ UNCHANGED <<calls, full_imputation, connectivity, body_part_indices,
                   skeleton_constraints, columns, raw, prev, original_pos,
                   nan_frames, completed_data, smoothed_data, cursor, last,
                   result, error>>
    /\ UNCHANGED driver
    /\ UNCHANGED sampled_frames

\* mutant of NeedsFullRepair: the test for a remaining missing entry is dropped
NeedsFullRepairAlways == full_imputation

\* mutant of NeedsFullRepair: the full_imputation flag is not read
NeedsFullRepairAnyNaN == AnyNaN(data)

\* line 311: self.full_imputation and any(np.isnan(data).any())
NeedsFullRepair == full_imputation /\ AnyNaN(data)

\* lines 348-349: return data
ReturnData ==
    /\ pc = "interpolated"
    /\ ~NeedsFullRepair
    /\ pc' = "returned"
    /\ result' = data
    /\ UNCHANGED <<calls, full_imputation, connectivity, body_part_indices,
                   skeleton_constraints, columns, data, raw, prev, original_pos,
                   nan_frames, completed_data, smoothed_data, cursor, last, error>>
    /\ UNCHANGED driver
    /\ UNCHANGED sampled_frames

\* mutant of InitializeConstraints: the assert of line 281 is not executed
InitializeConstraintsNoAssert ==
    /\ pc = "interpolated"
    /\ NeedsFullRepair
    /\ IF skeleton_constraints # None
       THEN /\ pc' = "initialized"
            /\ UNCHANGED <<body_part_indices, skeleton_constraints, error,
                           sampled_frames>>
       ELSE LET bpi == BodyPartIndices(columns)
                complete == CompleteFrames(data, 1)
                built == BuildConstraints(data, columns, bpi,
                                          SampledFrames(complete), connectivity)
            IN  /\ body_part_indices' = bpi
                /\ IF complete = <<>>
                   THEN /\ pc' = "raised"
                        /\ error' = "ValueError: no complete frames"
                        /\ UNCHANGED <<skeleton_constraints, sampled_frames>>
                   ELSE /\ sampled_frames' = SampledFrames(complete)
                        /\ skeleton_constraints' = built
                        /\ pc' = "initialized"
                        /\ UNCHANGED error
    /\ UNCHANGED <<calls, full_imputation, connectivity, columns, data, raw, prev,
                   original_pos, nan_frames, completed_data, smoothed_data,
                   cursor, last, result>>
    /\ UNCHANGED driver

\* mutant of InitializeConstraints: the test of line 312 is dropped, every
\* full repair builds the constraints again
InitializeConstraintsRebuild ==
    /\ pc = "interpolated"
    /\ NeedsFullRepair
    /\ LET bpi == BodyPartIndices(columns)
           complete == CompleteFrames(data, 1)
           built == BuildConstraints(data, columns, bpi,
                                     SampledFrames(complete), connectivity)
       IN  /\ body_part_indices' = bpi
           /\ IF complete = <<>>
              THEN /\ pc' = "raised"
                   /\ error' = "ValueError: no complete frames"
                   /\ UNCHANGED <<skeleton_constraints, sampled_frames>>
              ELSE /\ sampled_frames' = SampledFrames(complete)
                   /\ skeleton_constraints' = built
                   /\ IF built = <<>>
                      THEN pc' = "raised" /\ error' = "AssertionError"
                      ELSE pc' = "initialized" /\ UNCHANGED error
    /\ UNCHANGED <<calls, full_imputation, connectivity, columns, data, raw, prev,
                   original_pos, nan_frames, completed_data, smoothed_data,
                   cursor, last, result>>
    /\ UNCHANGED driver

\* lines 312-313 with _initialize_constraints (lines 233-285): the index map
\* is written first, then either exception leaves what was written before it
InitializeConstraints ==
    /\ pc = "interpolated"
    /\ NeedsFullRepair
    /\ IF skeleton_constraints # None
       THEN /\ pc' = "initialized"
            /\ UNCHANGED <<body_part_indices, skeleton_constraints, error,
                           sampled_frames>>
       ELSE LET bpi == BodyPartIndices(columns)
                complete == CompleteFrames(data, 1)
                built == BuildConstraints(data, columns, bpi,
                                          SampledFrames(complete), connectivity)
            IN  /\ body_part_indices' = bpi
                /\ IF complete = <<>>
                   THEN /\ pc' = "raised"
                        /\ error' = "ValueError: no complete frames"
                        /\ UNCHANGED <<skeleton_constraints, sampled_frames>>
                   ELSE /\ sampled_frames' = SampledFrames(complete)
                        /\ skeleton_constraints' = built
                        /\ IF built = <<>>
                           THEN pc' = "raised" /\ error' = "AssertionError"
                           ELSE pc' = "initialized" /\ UNCHANGED error
    /\ UNCHANGED <<calls, full_imputation, connectivity, columns, data, raw, prev,
                   original_pos, nan_frames, completed_data, smoothed_data,
                   cursor, last, result>>
    /\ UNCHANGED driver

\* lines 316-326: original_pos, nan_frames, data_snippets = reshaped_data[nan_frames]
SelectFrames ==
    /\ pc = "initialized"
    /\ original_pos' = OriginalPos(data)
    /\ nan_frames' = NanFrames(OriginalPos(data))
    /\ IF SelectionFails(OriginalPos(data), NanFrames(OriginalPos(data)))
       THEN pc' = "raised" /\ error' = "IndexError"
       ELSE pc' = "selected" /\ UNCHANGED error
    /\ UNCHANGED <<calls, full_imputation, connectivity, body_part_indices,
                   skeleton_constraints, columns, data, raw, prev,
                   completed_data, smoothed_data, cursor, last, result>>
    /\ UNCHANGED driver
    /\ UNCHANGED sampled_frames

\* mutant of ImputedRows: the test of line 331 is dropped, the imputer is
\* always given the whole track
ImputedRowsWholeTrack == 1..Len(data)

\* the rows handed to _iterative_imputation (lines 331-334)
ImputedRows ==
    IF Cardinality(SelectedFrames(nan_frames)) > MinSnippetFrames
    THEN SelectedFrames(nan_frames)
    ELSE 1..Len(data)

\* lines 330-334: completed_data
Impute ==
    /\ pc = "selected"
    /\ IF ImputationFails(data, ImputedRows)
       THEN /\ pc' = "raised"
            /\ error' = "ValueError: cannot reshape"
            /\ UNCHANGED completed_data
       ELSE /\ pc' = "imputed"
            /\ \E offset \in ImputeOffsets :
                 completed_data' = IterativeImputation(data, ImputedRows, offset)
            /\ UNCHANGED error
    /\ UNCHANGED <<calls, full_imputation, connectivity, body_part_indices,
                   skeleton_constraints, columns, data, raw, prev, original_pos,
                   nan_frames, smoothed_data, cursor, last, result>>
    /\ UNCHANGED driver
    /\ UNCHANGED sampled_frames

\* line 335: completed_data[original_pos] = reshaped_data[original_pos]
RestoreCompleted ==
    /\ pc = "imputed"
    /\ pc' = "restored"
    /\ completed_data' = FillBack(completed_data, original_pos, data)
    /\ UNCHANGED <<calls, full_imputation, connectivity, body_part_indices,
                   skeleton_constraints, columns, data, raw, prev, original_pos,
                   nan_frames, smoothed_data, cursor, last, result, error>>
    /\ UNCHANGED driver
    /\ UNCHANGED sampled_frames

\* line 338: smoothed_data = self._kalman_smoothing(completed_data)
Smooth ==
    /\ pc = "restored"
    /\ pc' = "smoothed"
    /\ \E g \in KalmanGains : smoothed_data' = KalmanSmoothing(completed_data, g)
    /\ UNCHANGED <<calls, full_imputation, connectivity, body_part_indices,
                   skeleton_constraints, columns, data, raw, prev, original_pos,
                   nan_frames, completed_data, cursor, last, result, error>>
    /\ UNCHANGED driver
    /\ UNCHANGED sampled_frames

\* line 340: smoothed_data[original_pos] = reshaped_data[original_pos]
RestoreSmoothed ==
    /\ pc = "smoothed"
    /\ pc' = "refilled"
    /\ smoothed_data' = FillBack(smoothed_data, original_pos, data)
    /\ UNCHANGED <<calls, full_imputation, connectivity, body_part_indices,
                   skeleton_constraints, columns, data, raw, prev, original_pos,
                   nan_frames, completed_data, cursor, last, result, error>>
    /\ UNCHANGED driver
    /\ UNCHANGED sampled_frames

\* mutant of Enforce: the enforcer is not called, line 347 returns the
\* smoothed buffer
EnforceLeftOut ==
    /\ pc = "refilled"
    /\ cursor = <<0, 0>>
    /\ pc' = "returned"
    /\ result' = smoothed_data
    /\ UNCHANGED <<calls, full_imputation, connectivity, body_part_indices,
                   skeleton_constraints, columns, data, raw, prev, original_pos,
                   nan_frames, completed_data, smoothed_data, cursor, last, error>>
    /\ UNCHANGED driver
    /\ UNCHANGED sampled_frames

\* lines 343-345: enforce_skeleton_constraints_numba, in place on smoothed_data
Enforce ==
    /\ pc = "refilled"
    /\ cursor = <<0, 0>>
    /\ pc' = "enforced"
    /\ smoothed_data' = EnforceAll(smoothed_data, skeleton_constraints, original_pos)
    /\ UNCHANGED <<calls, full_imputation, connectivity, body_part_indices,
                   skeleton_constraints, columns, data, raw, prev, original_pos,
                   nan_frames, completed_data, cursor, last, result, error>>
    /\ UNCHANGED driver
    /\ UNCHANGED sampled_frames

\* line 347: return constrained_data.reshape(data.shape)
ReturnConstrained ==
    /\ pc = "enforced"
    /\ pc' = "returned"
    /\ result' = smoothed_data
    /\ UNCHANGED <<calls, full_imputation, connectivity, body_part_indices,
                   skeleton_constraints, columns, data, raw, prev, original_pos,
                   nan_frames, completed_data, smoothed_data, cursor, last, error>>
    /\ UNCHANGED driver
    /\ UNCHANGED sampled_frames

Next ==
    \/ Call
    \/ CallNext
    \/ CallOther
    \/ InterpolateStep
    \/ ReturnData
    \/ InitializeConstraints
    \/ SelectFrames
    \/ Impute
    \/ RestoreCompleted
    \/ Smooth
    \/ RestoreSmoothed
    \/ Enforce
    \/ ReturnConstrained

Spec == Init /\ [][Next]_vars

(***************************************************************************)
(* Gap filling on its own: fit_transform of an imputer with                *)
(* full_imputation=False on every one-column table of up to MaxLen frames, *)
(* and again on the table it returned                                      *)
(***************************************************************************)
\* frames of the one-column tables
MaxLen == 8

RECURSIVE Gcd(_, _)
Gcd(a, b) == IF b = 0 THEN a ELSE Gcd(b, a % b)

RECURSIVE LcmUpTo(_)
LcmUpTo(n) == IF n <= 1 THEN 1 ELSE (LcmUpTo(n - 1) * n) \div Gcd(LcmUpTo(n - 1), n)

\* the values of a present entry: 0 and one that every distance between two
\* frames divides, so that the quotient of np.interp is exact in fixed point
SeriesValues == {0, LcmUpTo(MaxLen)}

SeriesColumns == << <<"A", "x">> >>

SeriesTables ==
    UNION {[1..n -> [1..1 -> SeriesValues \cup {NaN}]] : n \in 1..MaxLen}

InitGap ==
    /\ Init
    /\ full_imputation = FALSE
    /\ connectivity = CHOOSE g \in Connectivities : TRUE

\* imputer.fit_transform(table, key)
CallSeries ==
    /\ pc = "idle"
    /\ calls = 0
    /\ \E t \in SeriesTables : Enter(t, SeriesColumns, NoTable)

\* imputer.fit_transform(table, key) once more, on the table the call before
\* worked on in place and returned
CallAgain ==
    /\ pc = "returned"
    /\ 0 < calls /\ calls < MaxCalls
    /\ Enter(data, columns, raw)

NextGap ==
    \/ CallSeries
    \/ InterpolateStep
    \/ ReturnData
    \/ CallAgain

SpecGap == InitGap /\ [][NextGap]_vars

(***************************************************************************)
(* The enforcer on its own, one constraint of one frame a step:            *)
(* enforce_skeleton_constraints_numba on buffers of up to EnforceFrames    *)
(* frames of the parts A, B, C with the constraints of the chain A - B - C *)
(***************************************************************************)
\* frames of the buffers
EnforceFrames == 2

\* the constraints _initialize_constraints builds for the chain from frames
\* with A - B 50 apart and B - C 60 apart
ChainConstraints == << <<0, 1, 50>>, <<1, 0, 50>>, <<1, 2, 60>>, <<2, 1, 60>> >>

\* frames <<Ax, Ay, Bx, By, Cx, Cy>>: every edge within tolerance, A - B too
\* long, B - C too short, both edges too long, and A - B a little too long
\* with C next to B on the side of A
EnforcePoses ==
    { <<100, 100, 140, 130, 140, 190>>,
      <<100, 100, 180, 160, 180, 220>>,
      <<100, 100, 140, 130, 140, 150>>,
      <<100, 100, 180, 160, 260, 220>>,
      <<100, 100, 145, 133, 141, 130>> }

\* original_pos of a frame: any for the first frame of a buffer, all or none
\* present for the frames after it
FrameMasks(f) ==
    IF f = 1 THEN [1..(2 * Len(Parts)) -> BOOLEAN]
    ELSE {[c \in 1..(2 * Len(Parts)) |-> b] : b \in BOOLEAN}

EnforceMasks ==
    UNION {{m \in [1..n -> [1..(2 * Len(Parts)) -> BOOLEAN]] :
                \A f \in 1..n : m[f] \in FrameMasks(f)} : n \in 1..EnforceFrames}

\* fit_transform has reached line 343 with the buffer `smoothed_data`
InitEnforce ==
    /\ pc = "refilled"
    /\ calls = 1
    /\ full_imputation = TRUE
    /\ connectivity = CHOOSE g \in Connectivities : g[1][1] = "A"
    /\ body_part_indices = BodyPartIndices(PartColumns)
    /\ skeleton_constraints = ChainConstraints
    /\ sampled_frames = <<>>
    /\ columns = PartColumns
    /\ original_pos \in EnforceMasks
    /\ smoothed_data \in [1..Len(original_pos) -> EnforcePoses]
    /\ completed_data = smoothed_data
    /\ data = [f \in 1..Len(original_pos) |-> [c \in 1..(2 * Len(Parts)) |->
                  IF original_pos[f][c] THEN smoothed_data[f][c] ELSE NaN]]
    /\ raw = data
    /\ prev = NoTable
    /\ nan_frames = <<>>
    /\ cursor = <<1, 1>>
    /\ last = NoStep
    /\ result = None
    /\ error = "none"
    /\ tab_dict = <<>>
    /\ presence_masks = <<>>
    /\ imputed_tabs = <<>>
    /\ key = 0
    /\ warnings = <<>>

\* lines 172-173 where the frame loop stands: continue
EnforceSkip ==
    /\ pc = "refilled"
    /\ cursor[1] <= Len(smoothed_data)
    /\ cursor[2] = 1
    /\ SkipFrame(original_pos[cursor[1]])
    /\ cursor' = <<cursor[1] + 1, 1>>
    /\ last' = NoStep
    /\ UNCHANGED <<pc, calls, full_imputation, connectivity, body_part_indices,
                   skeleton_constraints, columns, data, raw, prev, original_pos,
                   nan_frames, completed_data, smoothed_data, result, error>>
    /\ UNCHANGED driver
    /\ UNCHANGED sampled_frames

\* lines 175-193 for the constraint the loops stand at
EnforceConstraint ==
    /\ pc = "refilled"
    /\ cursor[1] <= Len(smoothed_data)
    /\ cursor[2] <= Len(skeleton_constraints)
    /\ cursor[2] = 1 => ~SkipFrame(original_pos[cursor[1]])
    /\ smoothed_data' =
         [smoothed_data EXCEPT ![cursor[1]] =
             EnforceOne(@, original_pos[cursor[1]], skeleton_constraints[cursor[2]])]
    /\ cursor' = IF cursor[2] < Len(skeleton_constraints)
                 THEN <<cursor[1], cursor[2] + 1>>
                 ELSE <<cursor[1] + 1, 1>>
    /\ last' = [frame |-> cursor[1], con |-> cursor[2],
                before |-> smoothed_data[cursor[1]]]
    /\ UNCHANGED <<pc, calls, full_imputation, connectivity, body_part_indices,
                   skeleton_constraints, columns, data, raw, prev, original_pos,
                   nan_frames, completed_data, result, error>>
    /\ UNCHANGED driver
    /\ UNCHANGED sampled_frames

\* line 194: return data
EnforceReturn ==
    /\ pc = "refilled"
    /\ cursor[1] > Len(smoothed_data)
    /\ cursor[1] > 0
    /\ pc' = "enforced"
    /\ last' = NoStep
    /\ UNCHANGED <<calls, full_imputation, connectivity, body_part_indices,
                   skeleton_constraints, columns, data, raw, prev, original_pos,
                   nan_frames, completed_data, smoothed_data, cursor, result, error>>
    /\ UNCHANGED driver
    /\ UNCHANGED sampled_frames

NextEnforce ==
    \/ EnforceSkip
    \/ EnforceConstraint
    \/ EnforceReturn
    \/ ReturnConstrained

SpecEnforce == InitEnforce /\ [][NextEnforce]_vars

(***************************************************************************)
(* The smoother on its own: _kalman_smoothing on every one-channel buffer  *)
(* of up to MaxSeries frames                                               *)
(***************************************************************************)
\* frames of the series
MaxSeries == 3

\* the measurements
Measurements == {0, 40, 100, 130}

SmootherInputs ==
    UNION {[1..n -> {<<v>> : v \in Measurements}] : n \in 1..MaxSeries}

\* fit_transform has reached line 338 with the buffer `completed_data`
InitSmoother ==
    /\ pc = "restored"
    /\ calls = 1
    /\ full_imputation = TRUE
    /\ connectivity = CHOOSE g \in Connectivities : g[1][1] = "A"
    /\ body_part_indices = None
    /\ skeleton_constraints = None
    /\ sampled_frames = <<>>
    /\ columns = << <<"A", "x">> >>
    /\ completed_data \in SmootherInputs
    /\ data = completed_data
    /\ raw = completed_data
    /\ prev = NoTable
    /\ original_pos = NoTable
    /\ nan_frames = <<>>
    /\ smoothed_data = NoTable
    /\ cursor = <<0, 0>>
    /\ last = NoStep
    /\ result = None
    /\ error = "none"
    /\ tab_dict = <<>>
    /\ presence_masks = <<>>
    /\ imputed_tabs = <<>>
    /\ key = 0
    /\ warnings = <<>>

NextSmoother == Smooth

SpecSmoother == InitSmoother /\ [][NextSmoother]_vars

(***************************************************************************)
(* iterative_imputation (utils.py 601-668) for one animal: the loop over   *)
(* the animal's tables, a new imputer and one fit_transform call a table   *)
(***************************************************************************)
\* tables of the animal in tab_dict
MaxTables == 2

\* the runs of missing frames of the animal's tables, per part: none; A never
\* measured and B missing in frame 2; C observed in the last frame only; B
\* missing in frame 2
DriverRuns(n) ==
    { <<<<>>, <<>>, <<>>>>,
      <<<<1, n>>, <<2, 2>>, <<>>>>,
      <<<<>>, <<>>, <<1, n - 1>>>>,
      <<<<>>, <<2, 2>>, <<>>>> }

\* the columns of another animal of the experiment: one part
OtherAnimalColumns == << <<"Other", "x">>, <<"Other", "y">> >>

\* the columns of an experiment's table: the animal's, then the other's
TableColumns == PartColumns \o OtherAnimalColumns

\* the table of an experiment: the animal's track and the other animal's
\* part, which is missing in frame 2
WithOther(track) ==
    [f \in 1..Len(track) |->
        track[f] \o (IF f = 2 THEN <<NaN, NaN>> ELSE <<300 + f, 40>>)]

DriverTables ==
    UNION {{WithOther(Track(n, "stretch", runs, <<"x", "y">>)) :
                runs \in DriverRuns(n)} :
              n \in {ShortLen, LongLen}}

\* the position of the column `col` in cols, 0 if it is not there
ColumnIn(cols, col) ==
    IF \E j \in 1..Len(cols) : cols[j] = col
    THEN CHOOSE j \in 1..Len(cols) : cols[j] = col
    ELSE 0

\* tab_dict.filter_id(animal_id)[k]: the columns of the animal, in the order
\* of the table
FilterId(tab) ==
    [f \in 1..Len(tab) |->
        [c \in 1..Len(PartColumns) |-> tab[f][ColumnIn(TableColumns, PartColumns[c])]]]

\* np.where(presence_masks[k][animal_id].values)[0], counted from 1
RECURSIVE PresentRowsIn(_, _, _)
PresentRowsIn(mask, lo, hi) ==
    IF lo > hi THEN <<>>
    ELSE IF lo = hi THEN (IF mask[lo] THEN <<lo>> ELSE <<>>)
    ELSE PresentRowsIn(mask, lo, (lo + hi) \div 2)
         \o PresentRowsIn(mask, (lo + hi) \div 2 + 1, hi)

PresentRows(mask) == PresentRowsIn(mask, 1, Len(mask))

\* the columns of sub_table after the two inserts at position 0
SubColumns(cols) == << <<"Row", "y">>, <<"Row", "x">> >> \o cols

\* sub_table: the rows of tab the animal is in, the row number in front twice
SubTable(tab, mask) ==
    LET rows == PresentRows(mask)
    IN  [r \in 1..Len(rows) |-> <<rows[r] - 1, rows[r] - 1>> \o tab[rows[r]]]

\* mutant of UpdateTable: the rows of imputed are written by position, its
\* index is not read
UpdateTableByPosition(old, mask, imputed) ==
    LET cols == SubColumns(PartColumns)
    IN  [f \in 1..Len(old) |-> [c \in 1..NColsOf(old) |->
            LET j == ColumnIn(cols, TableColumns[c])
            IN  IF j # 0 /\ f <= Len(imputed) /\ ~IsNaN(imputed[f][j])
                THEN imputed[f][j]
                ELSE old[f][c]]]

\* imputed_tabs[k].update(imputed) after the two Row columns are dropped:
\* update aligns on the index and on the column labels, and the entries of
\* imputed that are not NaN overwrite
UpdateTable(old, mask, imputed) ==
    LET rows == PresentRows(mask)
        cols == SubColumns(PartColumns)
    IN  [f \in 1..Len(old) |-> [c \in 1..NColsOf(old) |->
            LET j == ColumnIn(cols, TableColumns[c])
            IN  IF /\ j # 0
                   /\ ~(\A r \in 1..Len(rows) : ~(rows[r] = f /\ ~IsNaN(imputed[r][j])))
                THEN imputed[CHOOSE r \in 1..Len(rows) : rows[r] = f][j]
                ELSE old[f][c]]]

\* mutant of IsValueError: a bare except
IsAnyError(e) == TRUE

\* except ValueError
IsValueError(e) == e \in {"ValueError: no complete frames", "ValueError: cannot reshape"}

\* lines 622-626: presence_masks, imputed_tabs = copy.deepcopy(tab_dict)
InitDriver ==
    /\ pc = "loop"
    /\ calls = 0
    /\ full_imputation \in BOOLEAN
    /\ connectivity \in Connectivities
    /\ body_part_indices = None
    /\ skeleton_constraints = None
    /\ sampled_frames = <<>>
    /\ columns = <<>>
    /\ data = NoTable
    /\ raw = NoTable
    /\ prev = NoTable
    /\ original_pos = NoTable
    /\ nan_frames = <<>>
    /\ completed_data = NoTable
    /\ smoothed_data = NoTable
    /\ cursor = <<0, 0>>
    /\ last = NoStep
    /\ result = None
    /\ error = "none"
    /\ tab_dict \in UNION {[1..n -> DriverTables] : n \in 1..MaxTables}
    \* the animal is in every frame of its tables, or in every frame but the first
    /\ presence_masks \in
         {[i \in 1..Len(tab_dict) |-> IF whole THEN [f \in 1..Len(tab_dict[i]) |-> TRUE]
                                      ELSE [f \in 1..Len(tab_dict[i]) |-> f > 1]] :
             whole \in BOOLEAN}
    /\ imputed_tabs = tab_dict
    /\ key = 1
    /\ warnings = <<>>

\* lines 630-647: sub_table with its Row columns, a new MouseTrackingImputer,
\* and the call imputer.fit_transform(sub_table, k)
StartTable ==
    /\ pc = "loop"
    /\ key <= Len(tab_dict)
    /\ pc' = "called"
    /\ calls' = 1
    /\ body_part_indices' = None
    /\ skeleton_constraints' = None
    /\ columns' = SubColumns(PartColumns)
    /\ data' = SubTable(FilterId(tab_dict[key]), presence_masks[key])
    /\ raw' = data'
    /\ prev' = NoTable
    /\ original_pos' = NoTable
    /\ nan_frames' = <<>>
    /\ completed_data' = NoTable
    /\ smoothed_data' = NoTable
    /\ cursor' = <<0, 0>>
    /\ last' = NoStep
    /\ result' = None
    /\ error' = "none"
    /\ sampled_frames' = <<>>
    /\ UNCHANGED <<full_imputation, connectivity>>
    /\ UNCHANGED driver

\* lines 649-663: the Row columns dropped, imputed_tabs[k].update(imputed),
\* and the warning when the table came back with another number of columns
Collect ==
    /\ pc = "returned"
    /\ key >= 1
    /\ pc' = "loop"
    /\ key' = key + 1
    /\ imputed_tabs' = [imputed_tabs EXCEPT ![key] =
                            UpdateTable(@, presence_masks[key], result)]
    /\ warnings' = IF NColsOf(FilterId(tab_dict[key])) # Len(columns) - 2
                   THEN Append(warnings, "zero measurements")
                   ELSE warnings
    /\ UNCHANGED <<calls, full_imputation, connectivity, body_part_indices,
                   skeleton_constraints, columns, data, raw, prev, original_pos,
                   nan_frames, completed_data, smoothed_data, cursor, last,
                   result, error, tab_dict, presence_masks>>
    /\ UNCHANGED sampled_frames

\* mutant of CatchValueError: the handler keeps what gap filling wrote into
\* sub_table before the exception
CatchValueErrorKeepFilled ==
    /\ pc = "raised"
    /\ key >= 1
    /\ IsValueError(error)
    /\ pc' = "loop"
    /\ key' = key + 1
    /\ warnings' = Append(warnings, "not enough data")
    /\ imputed_tabs' = [imputed_tabs EXCEPT ![key] =
                            UpdateTable(@, presence_masks[key], data)]
    /\ UNCHANGED <<calls, full_imputation, connectivity, body_part_indices,
                   skeleton_constraints, columns, data, raw, prev, original_pos,
                   nan_frames, completed_data, smoothed_data, cursor, last,
                   result, error, tab_dict, presence_masks>>
    /\ UNCHANGED sampled_frames

\* lines 665-668: except ValueError: the warning, and on to the next table
CatchValueError ==
    /\ pc = "raised"
    /\ key >= 1
    /\ IsValueError(error)
    /\ pc' = "loop"
    /\ key' = key + 1
    /\ warnings' = Append(warnings, "not enough data")
    /\ UNCHANGED <<calls, full_imputation, connectivity, body_part_indices,
                   skeleton_constraints, columns, data, raw, prev, original_pos,
                   nan_frames, completed_data, smoothed_data, cursor, last,
                   result, error, tab_dict, presence_masks, imputed_tabs>>
    /\ UNCHANGED sampled_frames

\* an exception that is no ValueError leaves iterative_imputation
Propagate ==
    /\ pc = "raised"
    /\ key >= 1
    /\ ~IsValueError(error)
    /\ pc' = "propagated"
    /\ UNCHANGED <<calls, full_imputation, connectivity, body_part_indices,
                   skeleton_constraints, columns, data, raw, prev, original_pos,
                   nan_frames, completed_data, smoothed_data, cursor, last,
                   result, error>>
    /\ UNCHANGED driver
    /\ UNCHANGED sampled_frames

\* line 670: return imputed_tabs
ReturnTabs ==
    /\ pc = "loop"
    /\ key > Len(tab_dict)
    /\ pc' = "done"
    /\ UNCHANGED <<calls, full_imputation, connectivity, body_part_indices,
                   skeleton_constraints, columns, data, raw, prev, original_pos,
                   nan_frames, completed_data, smoothed_data, cursor, last,
                   result, error>>
    /\ UNCHANGED driver
    /\ UNCHANGED sampled_frames

NextDriver ==
    \/ StartTable
    \/ InterpolateStep
    \/ ReturnData
    \/ InitializeConstraints
    \/ SelectFrames
    \/ Impute
    \/ RestoreCompleted
    \/ Smooth
    \/ RestoreSmoothed
    \/ Enforce
    \/ ReturnConstrained
    \/ Collect
    \/ CatchValueError
    \/ Propagate
    \/ ReturnTabs

SpecDriver == InitDriver /\ [][NextDriver]_vars

(***************************************************************************)
(* The constraint builder on its own: the first full repair of an imputer  *)
(* up to _initialize_constraints, on tables of up to MaxBuildFrames frames *)
(* with and without the Row columns of iterative_imputation                *)
(***************************************************************************)
\* frames of the longest table
MaxBuildFrames == 212

\* frames of the run in which part C is missing: gap filling leaves the
\* entries more than lin_interp_limit from its end missing
BuildGap == 2 * lin_interp_limit + 1

\* the column layouts: a coordinate table, and one with the two Row columns
BuildLayouts == {PartColumns, SubColumns(PartColumns)}

\* the table of n frames in which C is missing in the first (atStart) or the
\* last BuildGap frames, under the layout cols
BuildTable(n, atStart, cols) ==
    [f \in 1..n |-> [c \in 1..Len(cols) |->
        IF cols[c][1] = "Row" THEN f - 1
        ELSE IF cols[c][1] = "C" /\ (IF atStart THEN f <= BuildGap ELSE f > n - BuildGap)
        THEN NaN
        ELSE Position("stretch", f, cols[c][1], cols[c][2])]]

\* imputer.fit_transform(table, key) has been called on a new imputer with
\* full_imputation=True
InitBuild ==
    /\ pc = "called"
    /\ calls = 1
    /\ full_imputation = TRUE
    /\ connectivity \in Connectivities
    /\ body_part_indices = None
    /\ skeleton_constraints = None
    /\ sampled_frames = <<>>
    /\ columns \in BuildLayouts
    /\ data \in {BuildTable(n, atStart, columns) :
                    n \in (BuildGap + 1)..MaxBuildFrames, atStart \in BOOLEAN}
    /\ raw = data
    /\ prev = NoTable
    /\ original_pos = NoTable
    /\ nan_frames = <<>>
    /\ completed_data = NoTable
    /\ smoothed_data = NoTable
    /\ cursor = <<0, 0>>
    /\ last = NoStep
    /\ result = None
    /\ error = "none"
    /\ tab_dict = <<>>
    /\ presence_masks = <<>>
    /\ imputed_tabs = <<>>
    /\ key = 0
    /\ warnings = <<>>

NextBuild ==
    \/ InterpolateStep
    \/ InitializeConstraints

SpecBuild == InitBuild /\ [][NextBuild]_vars

(***************************************************************************)
(* The full repair of tracks long enough for the imputer to be restricted  *)
(* to the dilated selection: fit_transform on tables of SelectLen frames   *)
(***************************************************************************)
\* frames of the tables
SelectLen == 60

\* the runs in which part C is missing: after gap filling the selection has
\* MinSnippetFrames frames, one frame more, and more frames with frames
\* outside it on both sides
SelectRuns ==
    { <<5, MinSnippetFrames - 4>>,
      <<5, MinSnippetFrames - 3>>,
      <<10, SelectLen - 5>> }

\* part A is missing in no frame, or in the last but one (a gap that gap
\* filling closes)
SelectTracks ==
    {Track(SelectLen, traj, <<runA, <<>>, runC>>, <<"x", "y">>) :
        traj \in Trajectories,
        runA \in {<<>>, <<SelectLen - 1, SelectLen - 1>>},
        runC \in SelectRuns}

InitSelect ==
    /\ Init
    /\ full_imputation = TRUE
    /\ connectivity = CHOOSE g \in Connectivities : g[1][1] = "A"

\* imputer.fit_transform(table, key)
CallSelect ==
    /\ pc = "idle"
    /\ calls = 0
    /\ \E t \in SelectTracks : Enter(t, PartColumns, NoTable)

NextSelect ==
    \/ CallSelect
    \/ InterpolateStep
    \/ InitializeConstraints
    \/ SelectFrames
    \/ Impute
    \/ RestoreCompleted
    \/ Smooth
    \/ RestoreSmoothed
    \/ Enforce
    \/ ReturnConstrained

SpecSelect == InitSelect /\ [][NextSelect]_vars

(***************************************************************************)
(* Properties of gap filling (checked under SpecGap)                       *)
(***************************************************************************)
\* a..b is a maximal run of missing entries of s
MaximalRun(s, a, b) ==
    /\ a <= b
    /\ \A i \in a..b : IsNaN(s[i])
    /\ a = 1 \/ ~IsNaN(s[a - 1])
    /\ b = Len(s) \/ ~IsNaN(s[b + 1])

\* the table has been gap filled in this call
GapFilled == pc \in {"interpolated", "returned"}

\* C3: after gap filling, every entry of a maximal run of at most
\* lin_interp_limit missing entries with a valid neighbour on both sides lies
\* on the line through the two neighbours, in every column; with
\* full_imputation=False the returned table is that table
C3_ShortGapsInterpolated ==
    GapFilled =>
        /\ \A c \in 1..NColsOf(raw) :
             LET s == Column(raw, c)
                 o == Column(data, c)
             IN  \A a \in 2..Len(s) : \A b \in a..(Len(s) - 1) :
                    (MaximalRun(s, a, b) /\ b - a + 1 <= lin_interp_limit) =>
                        \A i \in a..b :
                            /\ ~IsNaN(o[i])
                            /\ (o[i] - s[a - 1]) * (b - a + 2)
                               = (s[b + 1] - s[a - 1]) * (i - a + 1)
        /\ (pc = "returned" /\ ~full_imputation) => result = data

\* C3 witness: a returned table in which a gap of two between two different
\* values was closed
C3_Witness ==
    /\ pc = "returned"
    /\ \E a \in 2..(Len(raw) - 2) :
         /\ MaximalRun(Column(raw, 1), a, a + 1)
         /\ raw[a - 1][1] # raw[a + 2][1]
         /\ ~IsNaN(result[a][1]) /\ ~IsNaN(result[a + 1][1])

\* C4: after gap filling alone, every entry of a maximal run of more than
\* lin_interp_limit missing entries is still missing
C4_LongGapsStayMissing ==
    (pc = "returned" /\ ~full_imputation) =>
        \A c \in 1..NColsOf(raw) :
            LET s == Column(raw, c)
            IN  \A a \in 1..Len(s) : \A b \in a..Len(s) :
                    (MaximalRun(s, a, b) /\ b - a + 1 > lin_interp_limit) =>
                        \A i \in a..b : IsNaN(result[i][c])

\* C5: gap filling leaves every entry of a run that abuts the start or the end
\* of the track missing
C5_EdgeRunsStayMissing ==
    GapFilled =>
        \A c \in 1..NColsOf(raw) :
            LET s == Column(raw, c)
            IN  \A a \in 1..Len(s) : \A b \in a..Len(s) :
                    (MaximalRun(s, a, b) /\ (a = 1 \/ b = Len(s))) =>
                        \A i \in a..b : IsNaN(data[i][c])

\* C6: gap filling a table that has been gap filled changes nothing
C6_Idempotent ==
    (pc = "returned" /\ prev # NoTable) => result = raw

(***************************************************************************)
(* Properties of fit_transform (checked under Spec)                        *)
(***************************************************************************)
\* the call has ended, by a return or by an exception
Ended == pc \in {"returned", "raised"}

\* every entry that is present in table `before` has the same value in `after`
KeepsPresent(before, after) ==
    \A f \in 1..Len(before) : \A c \in 1..NColsOf(before) :
        ~IsNaN(before[f][c]) => after[f][c] = before[f][c]

\* C1: every entry that is present in the table passed to fit_transform has
\* the same value in the table fit_transform returns, for either setting of
\* full_imputation
C1_ObservedUnchanged ==
    pc = "returned" => KeepsPresent(raw, result)

\* C7: a call on a table without missing entries returns a table equal to its
\* input, leaves the input as it was, and no step of it writes the imputer's
\* constraints or index map
C7_CompleteTrackNoOp ==
    [][~AnyNaN(raw') =>
            /\ UNCHANGED <<skeleton_constraints, body_part_indices>>
            /\ pc' # "raised"
            /\ pc' = "returned" => (result' = raw' /\ data' = raw')]_vars

\* C7 witness: an imputer with full_imputation=True has returned from a call
\* on a table of LongLen frames without missing entries
C7_Witness ==
    /\ pc = "returned"
    /\ full_imputation
    /\ Len(raw) = LongLen
    /\ ~AnyNaN(raw)
    /\ result = raw

\* C8: when full_imputation is False, or the gap-filled table has no missing
\* entry, the next step of fit_transform returns the gap-filled table, and the
\* step writes neither the imputer's constraints and index map nor any buffer
\* of the later stages
C8_ReturnsGapFilled ==
    [][(pc = "interpolated" /\ (~full_imputation \/ ~AnyNaN(data))) =>
            /\ pc' = "returned"
            /\ result' = data
            /\ UNCHANGED <<data, skeleton_constraints, body_part_indices,
                           original_pos, nan_frames, completed_data,
                           smoothed_data>>
            /\ completed_data = NoTable /\ smoothed_data = NoTable]_vars

\* C8 witness: an imputer with full_imputation=False has returned a table
\* that was gap filled and still has a missing entry
C8_Witness ==
    /\ pc = "returned"
    /\ ~full_imputation
    /\ result # raw
    /\ AnyNaN(result)
    /\ skeleton_constraints = None
    /\ sampled_frames = <<>>

\* no frame of the table is without a missing entry
NoCompleteFrame(t) == \A f \in 1..Len(t) : \E c \in 1..NColsOf(t) : IsNaN(t[f][c])

C10_InputUntouchedOnError ==
    (pc = "raised" /\ error = "ValueError: no complete frames") => data = raw

\* no adjacency entry of the connectivity has both its part and a neighbour
\* among the labels of the table's columns
NoMatchingEdge ==
    LET bpi == BodyPartIndices(columns)
    IN  \A n \in 1..Len(connectivity) : \A m \in 1..Len(connectivity[n][2]) :
            ~(HasPart(bpi, connectivity[n][1]) /\ HasPart(bpi, connectivity[n][2][m]))

\* C12: when a full repair builds the constraints (none are built yet and the
\* gap-filled table has a complete frame) and no edge of the connectivity has
\* both endpoints among the table's labels, the step raises the
\* AssertionError of _initialize_constraints and fit_transform returns no
\* table
C12_NoMatchingEdgeAsserts ==
    [][(pc = "interpolated" /\ NeedsFullRepair /\ skeleton_constraints = None
            /\ CompleteFrames(data, 1) # <<>> /\ NoMatchingEdge) =>
            /\ pc' = "raised"
            /\ error' = "AssertionError"
            /\ result' = None]_vars

\* C12 witness: the first call on an imputer whose connectivity names none of
\* the table's parts has raised the AssertionError
C12_Witness ==
    /\ pc = "raised"
    /\ error = "AssertionError"
    /\ calls = 1
    /\ NoMatchingEdge
    /\ CompleteFrames(data, 1) # <<>>
    /\ result = None

\* C13: the constraint set of an imputer is None or non-empty in every state,
\* and so is never empty while imputation, smoothing and enforcement run
C13_ConstraintsNoneOrNonEmpty ==
    skeleton_constraints = None \/ skeleton_constraints # <<>>

C15_NoStaleConstraints ==
    pc \in {"initialized", "selected", "imputed", "restored", "smoothed",
            "refilled", "enforced"} =>
        body_part_indices = BodyPartIndices(columns)

\* table t has the value of table source wherever the mask orig is true
AgreesOnMask(t, orig, source) ==
    \A f \in 1..Len(t) : \A c \in 1..NColsOf(t) :
        orig[f][c] => t[f][c] = source[f][c]

\* C19: a full repair goes through its stages in one order, a step each:
\* after gap filling the constraint build (which leaves constraints that are
\* built as they are), the frame selection, the imputation, the copy-back
\* of the entries the mask flags, the smoothing, the copy-back again, the
\* enforcement and the return of the enforced buffer, which no step writes
\* after the enforcement; a stage that raises ends the call
C19_StageOrder ==
    [][/\ (pc = "called") => pc' = "interpolated"
       /\ (pc = "interpolated" /\ NeedsFullRepair) =>
             /\ pc' \in {"initialized", "raised"}
             /\ skeleton_constraints # None => UNCHANGED skeleton_constraints
       /\ (pc = "initialized") => pc' \in {"selected", "raised"}
       /\ (pc = "selected") => pc' \in {"imputed", "raised"}
       /\ (pc = "imputed") =>
             /\ pc' = "restored"
             /\ AgreesOnMask(completed_data', original_pos, data)
       /\ (pc = "restored") =>
             /\ pc' = "smoothed"
             /\ UNCHANGED completed_data
       /\ (pc = "smoothed") =>
             /\ pc' = "refilled"
             /\ AgreesOnMask(smoothed_data', original_pos, data)
       /\ (pc = "refilled") =>
             /\ pc' = "enforced"
             /\ UNCHANGED <<completed_data, original_pos>>
       /\ (pc = "enforced") =>
             /\ pc' = "returned"
             /\ result' = smoothed_data
             /\ UNCHANGED smoothed_data]_vars

\* C19 witness: a full repair has returned a buffer that the imputation, the
\* smoothing and the enforcement have each changed
C19_Witness ==
    /\ pc = "returned"
    /\ original_pos # NoTable
    /\ result = smoothed_data
    /\ completed_data # data
    /\ smoothed_data # completed_data
    /\ result # FillBack(KalmanSmoothing(completed_data,
                                         CHOOSE g \in KalmanGains : g[1] = 100),
                         original_pos, data)
    /\ result # FillBack(KalmanSmoothing(completed_data,
                                         CHOOSE g \in KalmanGains : g[1] # 100),
                         original_pos, data)

\* C20: the mask of the restore steps and of the enforcer is true exactly at
\* the entries that are present in the table as the caller passed it
C20_MaskOfRawInput ==
    original_pos # NoTable => original_pos = OriginalPos(raw)

\* the undirected edges {part1, part2} of the connectivity whose two
\* endpoints are both labels of the columns `cols`
EdgesAmong(adj, cols) ==
    LET bpi == BodyPartIndices(cols)
    IN  UNION {{{adj[n][1], adj[n][2][m]} : m \in {x \in 1..Len(adj[n][2]) :
                    HasPart(bpi, adj[n][1]) /\ HasPart(bpi, adj[n][2][x])}} :
               n \in 1..Len(adj)}

\* C21: the constraints an imputer holds are one per undirected edge of its
\* connectivity with both endpoints among the labels they were built for:
\* as many constraints as such edges, and no two on the same pair of parts
C21_OneConstraintPerEdge ==
    (skeleton_constraints # None /\ body_part_indices = BodyPartIndices(columns)) =>
        /\ Len(skeleton_constraints) = Cardinality(EdgesAmong(connectivity, columns))
        /\ \A k \in 1..Len(skeleton_constraints) :
              \A m \in 1..Len(skeleton_constraints) :
                 k # m => {skeleton_constraints[k][1], skeleton_constraints[k][2]}
                          # {skeleton_constraints[m][1], skeleton_constraints[m][2]}

\* C28: the dilated frame selection of a full repair has one boolean per
\* frame of the track, and the selection step does not raise
C28_SelectionIndexesTrack ==
    nan_frames # <<>> =>
        /\ Len(nan_frames) = Len(data)
        /\ error # "IndexError"

(***************************************************************************)
(* Properties of the enforcer (checked under SpecEnforce)                  *)
(***************************************************************************)
\* the constraint the last step applied, its frame's flags and its effect
LastCon == skeleton_constraints[last.con]

LastOrig == original_pos[last.frame]

LastAfter == smoothed_data[last.frame]

\* both entries of pair k are flagged present in the frame of the last step
LastPresent(k) == LastOrig[Col(k, 0)] /\ LastOrig[Col(k, 1)]

\* the last step changed an entry of pair k
LastMoved(k) ==
    \/ LastAfter[Col(k, 0)] # last.before[Col(k, 0)]
    \/ LastAfter[Col(k, 1)] # last.before[Col(k, 1)]

\* the constraint of the last step was out of tolerance before the step
LastOutOfTolerance ==
    OutOfTolerance(Distance(last.before[Col(LastCon[1], 0)],
                            last.before[Col(LastCon[1], 1)],
                            last.before[Col(LastCon[2], 0)],
                            last.before[Col(LastCon[2], 1)]),
                   LastCon[3])

\* C2: a step of the enforcer on a constraint (A, B) that is out of tolerance
\* moves no endpoint that is flagged present: not A when only A is present,
\* not B when only B is present, both only when neither is present, and
\* neither when both are present
C2_AnchorsNotMoved ==
    (last # NoStep /\ LastOutOfTolerance) =>
        LET A == LastCon[1]
            B == LastCon[2]
        IN  /\ (LastPresent(A) /\ ~LastPresent(B)) => ~LastMoved(A)
            /\ (LastPresent(B) /\ ~LastPresent(A)) => ~LastMoved(B)
            /\ (LastMoved(A) /\ LastMoved(B)) => (~LastPresent(A) /\ ~LastPresent(B))
            /\ (LastPresent(A) /\ LastPresent(B)) => (~LastMoved(A) /\ ~LastMoved(B))

\* the steps of the enforcer add up to enforce_skeleton_constraints_numba
EnforceStepsAgree ==
    (pc = "enforced" /\ cursor # <<0, 0>>) =>
        smoothed_data = EnforceAll(completed_data, skeleton_constraints, original_pos)

\* the constraints the pass over one frame corrects, from constraint k on:
\* those out of tolerance when the loop comes to them
RECURSIVE CorrectedFrom(_, _, _, _)
CorrectedFrom(row, orig, cons, k) ==
    IF k > Len(cons) THEN {}
    ELSE LET con == cons[k]
             current_dist == Distance(row[Col(con[1], 0)], row[Col(con[1], 1)],
                                      row[Col(con[2], 0)], row[Col(con[2], 1)])
         IN  (IF OutOfTolerance(current_dist, con[3]) THEN {k} ELSE {})
             \cup CorrectedFrom(EnforceOne(row, orig, con), orig, cons, k + 1)

\* |current_distance - expected_distance| of constraint con in a frame
Violation(row, con) ==
    Abs(Distance(row[Col(con[1], 0)], row[Col(con[1], 1)],
                 row[Col(con[2], 0)], row[Col(con[2], 1)]) - con[3])

\* C16: when the enforcer has returned, every constraint it corrected in a
\* frame it did not skip is violated in that frame by no more than it was
\* before the call
C16_ViolationNotIncreased ==
    (pc = "enforced" /\ cursor # <<0, 0>>) =>
        \A f \in 1..Len(smoothed_data) :
            ~SkipFrame(original_pos[f]) =>
                \A k \in CorrectedFrom(completed_data[f], original_pos[f],
                                       skeleton_constraints, 1) :
                    Violation(smoothed_data[f], skeleton_constraints[k])
                        <= Violation(completed_data[f], skeleton_constraints[k])

\* C24: where the enforcer comes to a frame, it goes on to the next frame
\* without a change when every entry of the frame is flagged present, and it
\* checks the first constraint on the frame when some entry, the x or the y
\* of some part, is not flagged present
C24_FramesSkippedOrChecked ==
    [][(pc = "refilled" /\ cursor[1] >= 1 /\ cursor[1] <= Len(smoothed_data)
            /\ cursor[2] = 1) =>
          IF \A c \in 1..Len(original_pos[cursor[1]]) : original_pos[cursor[1]][c]
          THEN /\ cursor' = <<cursor[1] + 1, 1>>
               /\ UNCHANGED smoothed_data
          ELSE /\ last' # NoStep
               /\ last'.frame = cursor[1]
               /\ last'.con = 1]_vars

\* the distance of the constraint of the last step, before the step
LastDistance ==
    Distance(last.before[Col(LastCon[1], 0)], last.before[Col(LastCon[1], 1)],
             last.before[Col(LastCon[2], 0)], last.before[Col(LastCon[2], 1)])

\* expected * (1 - tolerance) <= current <= expected * (1 + tolerance)
LastWithinTolerance ==
    /\ LastCon[3] * (100 - tolerance) <= 100 * LastDistance
    /\ 100 * LastDistance <= LastCon[3] * (100 + tolerance)

\* C25: a step of the enforcer on a constraint whose distance is within the
\* tolerance of the expected distance leaves the frame as it is: a step that
\* changes the frame is one on a constraint out of tolerance
C25_WithinToleranceNotMoved ==
    last # NoStep =>
        /\ LastWithinTolerance => LastAfter = last.before
        /\ LastAfter # last.before => ~LastWithinTolerance

\* C25 witness: a step on a constraint with none of its endpoints flagged
\* present, whose distance was more than the expected one and within the
\* tolerance by more than the rounding of the distance, has left the frame
\* as it was
C25_Witness ==
    /\ last # NoStep
    /\ LastWithinTolerance
    /\ LastDistance > LastCon[3]
    /\ 100 * (LastDistance + 1) <= LastCon[3] * (100 + tolerance)
    /\ ~LastOrig[Col(LastCon[1], 0)]
    /\ ~LastOrig[Col(LastCon[2], 0)]
    /\ LastAfter = last.before

(***************************************************************************)
(* Properties of the smoother (checked under SpecSmoother)                 *)
(***************************************************************************)
\* C17: the smoother applied to a series of one measurement returns that
\* measurement as the position
C17_SingleMeasurementUnchanged ==
    (pc = "smoothed" /\ Len(completed_data) = 1) => smoothed_data = completed_data

\* C17 witness: a series of the one measurement 130 has been smoothed
C17_Witness ==
    /\ pc = "smoothed"
    /\ completed_data = << <<130>> >>
    /\ smoothed_data = << <<130>> >>

(***************************************************************************)
(* Properties of iterative_imputation (checked under SpecDriver)           *)
(***************************************************************************)
\* the exceptions _initialize_constraints raises
BuilderErrors == {"ValueError: no complete frames", "AssertionError"}

\* C11: an exception of _initialize_constraints that fit_transform has raised
\* leaves iterative_imputation: its next step is not a step of the loop
C11_BuilderErrorsPropagate ==
    [][(pc = "raised" /\ key >= 1 /\ error \in BuilderErrors) =>
            pc' = "propagated"]_vars

\* C11 as amended: the AssertionError of the empty constraint set leaves
\* iterative_imputation, while the ValueError of the missing complete frame
\* is caught: iterative_imputation warns, leaves imputed_tabs as it is and
\* goes on with the next table
C11_AssertionPropagatesValueErrorCaught ==
    [][/\ (pc = "raised" /\ key >= 1 /\ error = "AssertionError") =>
             /\ pc' = "propagated"
             /\ UNCHANGED <<key, warnings, imputed_tabs>>
       /\ (pc = "raised" /\ key >= 1 /\ error = "ValueError: no complete frames") =>
             /\ pc' = "loop"
             /\ key' = key + 1
             /\ warnings' = Append(warnings, "not enough data")
             /\ UNCHANGED imputed_tabs]_vars

\* C11 witness: iterative_imputation has returned after the ValueError of
\* the missing complete frame on its last table, with the warning and the
\* table as it came
C11_Witness ==
    /\ pc = "done"
    /\ error = "ValueError: no complete frames"
    /\ warnings # <<>>
    /\ imputed_tabs[Len(tab_dict)] = tab_dict[Len(tab_dict)]
    /\ AnyNaN(tab_dict[Len(tab_dict)])

\* table t has a part without any measurement: a column that is all NaN
HasUnmeasuredPart(t) ==
    \E c \in 1..NColsOf(t) : \A f \in 1..Len(t) : IsNaN(t[f][c])

\* C18: when iterative_imputation with full_imputation=True goes past a table
\* with a part that has no measurement, it has not failed, and the table it
\* returns has, in the frames the animal is in, no missing entry left in the
\* columns that have a measurement
C18_OtherPartsRepaired ==
    \A i \in 1..Len(tab_dict) :
        (key > i /\ full_imputation /\ HasUnmeasuredPart(FilterId(tab_dict[i]))) =>
            /\ pc # "propagated"
            /\ \A c \in 1..Len(PartColumns) :
                   (\E f \in 1..Len(tab_dict[i]) : ~IsNaN(FilterId(tab_dict[i])[f][c])) =>
                       \A f \in 1..Len(tab_dict[i]) :
                           presence_masks[i][f] => ~IsNaN(FilterId(imputed_tabs[i])[f][c])

(***************************************************************************)
(* Properties of the constraint builder (checked under SpecBuild)          *)
(***************************************************************************)
\* C22: the frames the builder has sampled are at most
\* mouse_body_estimation_samples of the complete frames, the first complete
\* frame first, each a constant number of complete frames after the one before
C22_SampleBounded ==
    sampled_frames # <<>> =>
        LET complete == CompleteFrames(data, 1)
        IN  /\ Len(sampled_frames) <= mouse_body_estimation_samples
            /\ sampled_frames[1] = complete[1]
            /\ \E step \in 1..Len(complete) :
                  \A n \in 1..Len(sampled_frames) :
                      /\ (n - 1) * step + 1 <= Len(complete)
                      /\ sampled_frames[n] = complete[(n - 1) * step + 1]

\* entry [frame, k] of the 3D buffer is the (x, y) pair of the part `name`
AddressesPart(k, cols, name) ==
    /\ 0 <= k /\ k < Len(cols) \div 2
    /\ cols[Col(k, 0)] = <<name, "x">>
    /\ cols[Col(k, 1)] = <<name, "y">>

\* C26: when the builder has built the constraints of a table, with or
\* without the two Row columns in front, every constraint is the one of an
\* adjacency entry (part1, part2) of the connectivity: its two indices are
\* the buffer pairs of part1 and part2 and its distance is the mean distance
\* of those two parts over the sampled frames; every adjacency entry with
\* both parts in the table has its constraint, and no index is the Row pair
C26_ConstraintsAddressParts ==
    (pc = "initialized" /\ calls = 1) =>
        /\ \A k \in 1..Len(skeleton_constraints) :
              LET con == skeleton_constraints[k]
              IN  /\ \E n \in 1..Len(connectivity) : \E m \in 1..Len(connectivity[n][2]) :
                        /\ AddressesPart(con[1], columns, connectivity[n][1])
                        /\ AddressesPart(con[2], columns, connectivity[n][2][m])
                        /\ con[3] = Mean([i \in 1..Len(sampled_frames) |->
                                            PartDistance(data, columns, sampled_frames[i],
                                                         connectivity[n][1],
                                                         connectivity[n][2][m])])
                  /\ columns[Col(con[1], 0)][1] # "Row"
                  /\ columns[Col(con[2], 0)][1] # "Row"
        /\ \A n \in 1..Len(connectivity) : \A m \in 1..Len(connectivity[n][2]) :
              ~(\A k \in 1..Len(skeleton_constraints) :
                    ~(/\ AddressesPart(skeleton_constraints[k][1], columns,
                                       connectivity[n][1])
                      /\ AddressesPart(skeleton_constraints[k][2], columns,
                                       connectivity[n][2][m])))

\* C26 witness: the constraints of the chain have been built from a table
\* that starts with the two Row columns, A - B being pairs 1 and 2
C26_Witness ==
    /\ pc = "initialized"
    /\ columns[1][1] = "Row"
    /\ Len(skeleton_constraints) = 4
    /\ skeleton_constraints[1][1] = 1
    /\ skeleton_constraints[1][2] = 2

(***************************************************************************)
(* Properties of the full repair of long tracks (checked under SpecSelect) *)
(***************************************************************************)
\* the frames of table t within (DilationWindow - 1) / 2 frames of a frame
\* of t that has a missing entry
Dilated(t) ==
    {f \in 1..Len(t) :
        ~(\A g \in 1..Len(t) :
              ~(/\ g - (DilationWindow - 1) \div 2 <= f
                /\ f <= g + (DilationWindow - 1) \div 2
                /\ ~(\A c \in 1..NColsOf(t) : ~IsNaN(t[g][c]))))}

\* the row scope of the claim: the dilated selection when it has more than
\* MinSnippetFrames frames, the whole track otherwise
RowScope(t) ==
    IF Cardinality(Dilated(t)) > MinSnippetFrames THEN Dilated(t) ELSE 1..Len(t)

\* C23: in a full repair the selection flags exactly the frames within 7
\* frames of a frame with a missing entry; the imputation stage gives the
\* imputer the rows of that selection when they are more than 50 and the
\* whole track otherwise, and when it gives the selection the frames outside
\* it are in completed_data as they are in the gap-filled table
C23_RowScope ==
    /\ pc \in {"selected", "imputed"} =>
          /\ Len(nan_frames) = Len(data)
          /\ \A f \in 1..Len(data) : nan_frames[f] <=> f \in Dilated(data)
    /\ pc = "imputed" =>
          /\ \E offset \in ImputeOffsets :
                completed_data = IterativeImputation(data, RowScope(data), offset)
          /\ RowScope(data) = Dilated(data) =>
                \A f \in (1..Len(data)) \ Dilated(data) : completed_data[f] = data[f]

\* C23 witness: the imputer has been given a selection of more than 50
\* frames that leaves out frames at both ends of the track
C23_Witness ==
    /\ pc = "imputed"
    /\ Cardinality(Dilated(data)) > MinSnippetFrames
    /\ 1 \notin Dilated(data)
    /\ Len(data) \notin Dilated(data)
    /\ completed_data # data

\* C27: a full repair that returns hands back a table without a missing
\* value: the imputed buffer has none, on the dilated selection like on the
\* whole track, and neither have the smoothed and the constrained buffer
C27_ReturnedComplete ==
    /\ pc \in {"imputed", "restored"} => ~AnyNaN(completed_data)
    /\ pc \in {"smoothed", "refilled", "enforced"} => ~AnyNaN(smoothed_data)
    /\ pc = "returned" /\ full_imputation => ~AnyNaN(result)

\* a repair restricted to a selection of more than MinSnippetFrames frames
\* has returned a table for one that gap filling left with missing values
C27_Witness ==
    /\ pc = "returned"
    /\ full_imputation
    /\ AnyNaN(data)
    /\ Cardinality(SelectedFrames(nan_frames)) > MinSnippetFrames
    /\ Cardinality(SelectedFrames(nan_frames)) < Len(data)
    /\ ~AnyNaN(result)

(***************************************************************************)
(* Properties of skipped tables (checked under SpecDriver)                 *)
(***************************************************************************)
\* C30: the step that answers a ValueError of fit_transform leaves the
\* experiment's table in imputed_tabs as it is in tab_dict, whatever gap
\* filling had written into sub_table
C30_SkippedTableAsInput ==
    [][(pc = "raised" /\ IsValueError(error) /\ pc' = "loop")
          => imputed_tabs'[key] = tab_dict[key]]_vars

\* a table has been skipped after gap filling had filled an entry of
\* sub_table, and the entry is still missing in imputed_tabs
C30_Witness ==
    /\ pc = "loop"
    /\ key > 1
    /\ IsValueError(error)
    /\ imputed_tabs[key - 1] = tab_dict[key - 1]
    /\ \E r \in 1..Len(data) : \E c \in 3..NColsOf(data) :
          /\ IsNaN(raw[r][c])
          /\ ~IsNaN(data[r][c])
          /\ IsNaN(FilterId(imputed_tabs[key - 1])[raw[r][1] + 1][c - 2])

\* C29: whatever step iterative_imputation takes, tab_dict stays as it was
\* handed in, and an entry of imputed_tabs that differs from the entry of
\* tab_dict is in a frame the animal is in and in a column of the animal
C29_OnlyOwnRowsAndColumns ==
    [][/\ tab_dict' = tab_dict
       /\ \A i \in 1..Len(tab_dict) :
             \A f \in 1..Len(tab_dict[i]) : \A c \in 1..Len(TableColumns) :
                 imputed_tabs'[i][f][c] # tab_dict[i][f][c] =>
                     /\ presence_masks[i][f]
                     /\ ColumnIn(PartColumns, TableColumns[c]) # 0]_vars

\* iterative_imputation has returned a table it has changed, in which the
\* animal is not in frame 1 and misses a value there, and in which the other
\* animal's missing value in frame 2, where the animal is, is still missing
C29_Witness ==
    /\ pc = "done"
    /\ \E i \in 1..Len(tab_dict) :
          /\ ~presence_masks[i][1]
          /\ presence_masks[i][2]
          /\ imputed_tabs[i] # tab_dict[i]
          /\ AnyNaN(<<FilterId(tab_dict[i])[1]>>)
          /\ imputed_tabs[i][1] = tab_dict[i][1]
          /\ IsNaN(imputed_tabs[i][2][ColumnIn(TableColumns, OtherAnimalColumns[1])])

====
